---- MODULE Spec2Model ----
(***************************************************************************)
(* A model of monitorGPU (cmd/monitorGPU.go): the NVML session, the device *)
(* selection, the one-time device configuration and the sampling loop.     *)
(* The NVML binding (gonvml), the configuration store (viper), the clock   *)
(* and the context are the environment: every call into them returns one   *)
(* of the results drawn below.                                             *)
(***************************************************************************)
EXTENDS Integers, Sequences, FiniteSets, TLC

(* ------------------------------ bounds -------------------------------- *)

\* ticks of the sampling loop a run may start
MaxTicks == 2
\* collector calls that may return an error in one run
MaxFaults == 2
\* largest device count the provider reports
MaxDevices == 2
\* longest "devices" list of the configuration
MaxEntries == 2
\* seconds that may go by in a run of TimedSpec beyond the timer waits
MaxElapse == 3
\* collector calls that may return an error in a run of TimedSpec
MaxTimedFaults == 0

(* ----------------------------- constants ------------------------------ *)

\* seconds
gpuPeriod == 10
nvmlFeatureEnabled == 1
nvmlComputeExclusiveProcess == 3

(* ------------------------- strconv.ParseUint --------------------------- *)
\* A string is a sequence of one-character strings.

Digits == <<"0", "1", "2", "3", "4", "5", "6", "7", "8", "9">>

IsDigit(c) == \E d \in 1..Len(Digits) : Digits[d] = c

DigitVal(c) == (CHOOSE d \in 1..Len(Digits) : Digits[d] = c) - 1

\* the digit loop of ParseUint: a character that is no digit of the base is
\* a syntax error.  The range error (a value of 2^64 or more) needs 20
\* digits; the entries drawn below are far shorter.
RECURSIVE ParseDigits(_, _, _)
ParseDigits(s, base, n) ==
    IF s = <<>> THEN [err |-> FALSE, n |-> n]
    ELSE IF ~IsDigit(Head(s)) \/ DigitVal(Head(s)) >= base
         THEN [err |-> TRUE, n |-> 0]
    ELSE ParseDigits(Tail(s), base, n * base + DigitVal(Head(s)))

\* strconv.ParseUint(s, base, 64) for a base of 2 to 10: the empty string
\* is a syntax error
ParseUint(s, base) ==
    IF s = <<>> THEN [err |-> TRUE, n |-> 0] ELSE ParseDigits(s, base, 0)

\* (mutant) the entry read in base 8
ParseDeviceOctal(s) == ParseUint(s, 8)

\* u, err := strconv.ParseUint(s, 10, 64)
ParseDevice(s) == ParseUint(s, 10)

(* ---------------------------- GPUSnapshot ----------------------------- *)

\* GPUSnapshot{}: every field at its zero value
GPUSnapshot ==
    [TimeStamp |-> 0, MinorNumber |-> 0, UUID |-> "", Name |-> "",
     Brand |-> 0, PersistenceMode |-> 0, ComputeMode |-> 0,
     PerformanceState |-> 0, AvgGPUUtilization |-> 0, AvgPowerUsage |-> 0,
     TotalMemory |-> 0, UsedMemory |-> 0, GrClock |-> 0, SMClock |-> 0,
     MemClock |-> 0, GrMaxClock |-> 0, SMMaxClock |-> 0, MemMaxClock |-> 0,
     PcieTxThroughput |-> 0, PcieRxThroughput |-> 0, PcieGeneration |-> 0,
     PcieWidth |-> 0, PcieMaxGeneration |-> 0, PcieMaxWidth |-> 0,
     Temperature |-> 0, FanSpeed |-> 0]

(* --------------------------- the collector ---------------------------- *)
\* The reads of one device pass after the handle resolution, in source
\* order: the method called, the fields assigned from its results, and the
\* format string logged when it returns an error.

Collector == <<
    [call |-> "MinorNumber", fields |-> <<"MinorNumber">>,
     msg |-> "MinorNumber() error: %v"],
    [call |-> "UUID", fields |-> <<"UUID">>, msg |-> "UUID() error: %v"],
    [call |-> "Name", fields |-> <<"Name">>, msg |-> "Name() error: %v"],
    [call |-> "Brand", fields |-> <<"Brand">>, msg |-> "Brand() error: %v"],
    [call |-> "PersistenceMode", fields |-> <<"PersistenceMode">>,
     msg |-> "PersistenceMode() error: %v"],
    [call |-> "ComputeMode", fields |-> <<"ComputeMode">>,
     msg |-> "ComputeMode() error: %v"],
    [call |-> "PerformanceState", fields |-> <<"PerformanceState">>,
     msg |-> "PerformanceState() error: %v"],
    [call |-> "AverageGPUUtilization", fields |-> <<"AvgGPUUtilization">>,
     msg |-> "UtilizationRates() error: %v"],
    [call |-> "AveragePowerUsage", fields |-> <<"AvgPowerUsage">>,
     msg |-> "PowerUsage() error: %v"],
    [call |-> "MemoryInfo", fields |-> <<"TotalMemory", "UsedMemory">>,
     msg |-> "MemoryInfo() error: %v"],
    [call |-> "GrClock", fields |-> <<"GrClock">>,
     msg |-> "GrClock() error: %v"],
    [call |-> "SMClock", fields |-> <<"SMClock">>,
     msg |-> "SMClock() error: %v"],
    [call |-> "MemClock", fields |-> <<"MemClock">>,
     msg |-> "MemClock() error: %v"],
    [call |-> "GrMaxClock", fields |-> <<"GrMaxClock">>,
     msg |-> "GrMaxClock() error: %v"],
    [call |-> "SMMaxClock", fields |-> <<"SMMaxClock">>,
     msg |-> "SMMaxClock() error: %v"],
    [call |-> "MemMaxClock", fields |-> <<"MemMaxClock">>,
     msg |-> "MemMaxClock() error: %v"],
    [call |-> "PcieTxThroughput", fields |-> <<"PcieTxThroughput">>,
     msg |-> "PcieTxThroughput() error: %v"],
    [call |-> "PcieRxThroughput", fields |-> <<"PcieRxThroughput">>,
     msg |-> "PcieRxThroughput() error: %v"],
    [call |-> "PcieGeneration", fields |-> <<"PcieGeneration">>,
     msg |-> "PcieGeneration() error: %v"],
    [call |-> "PcieWidth", fields |-> <<"PcieWidth">>,
     msg |-> "PcieGeneration() error: %v"],
    [call |-> "PcieMaxGeneration", fields |-> <<"PcieMaxGeneration">>,
     msg |-> "PcieGeneration() error: %v"],
    [call |-> "PcieMaxWidth", fields |-> <<"PcieMaxWidth">>,
     msg |-> "PcieGeneration() error: %v"],
    [call |-> "Temperature", fields |-> <<"Temperature">>,
     msg |-> "Temperature() error: %v"],
    [call |-> "FanSpeed", fields |-> <<"FanSpeed">>,
     msg |-> "FanSpeed() error: %v"] >>

\* the reads whose error ends the device pass (`continue`)
IdentityReads == {r \in 1..Len(Collector) :
                    Collector[r].call \in {"MinorNumber", "UUID", "Name",
                                           "Brand", "PersistenceMode",
                                           "ComputeMode", "PerformanceState"}}

\* the reads whose error is logged and whose result is stored all the same
DynamicReads == (1..Len(Collector)) \ IdentityReads

(* ------------------------ the capability provider --------------------- *)

\* what device i returns for result j of read r when the read succeeds
Reading(i, r, j) ==
    IF Collector[r].fields[j] = "UUID" THEN "GPU-" \o ToString(i)
    ELSE IF Collector[r].fields[j] = "Name" THEN "Board-" \o ToString(i)
    ELSE 100 * (i + 1) + 2 * r + j

\* the numbers a failing read may hand back next to its error
ErrVals == {0, 9}

Arity(r) == Len(Collector[r].fields)

\* the results of read r on device i: success with the device's readings,
\* or (when canFail) an error next to any of the values above.  The results
\* of a failing identity read are never looked at, so one stands for all.
Results(i, r, canFail) ==
    {[err |-> FALSE, vals |-> [j \in 1..Arity(r) |-> Reading(i, r, j)]]}
    \cup
    (IF ~canFail THEN {}
     ELSE IF r \in IdentityReads
          THEN {[err |-> TRUE,
                 vals |-> [j \in 1..Arity(r) |->
                            GPUSnapshot[Collector[r].fields[j]]]]}
          ELSE {[err |-> TRUE, vals |-> v] : v \in [1..Arity(r) -> ErrVals]})

(* ---------------------------- configuration --------------------------- *)

\* entries of the "devices" list: "0", "12", "1x", "-1" and ""
Entries == {<<"0">>, <<"1", "2">>, <<"1", "x">>, <<"-", "1">>, <<>>}

RECURSIVE SeqsUpTo(_, _)
SeqsUpTo(S, n) ==
    IF n = 0 THEN {<<>>}
    ELSE LET shorter == SeqsUpTo(S, n - 1)
         IN shorter \cup {Append(q, e) : q \in shorter, e \in S}

\* viper.GetStringSlice("devices")
DeviceLists == SeqsUpTo(Entries, MaxEntries)

(* ------------------------------- state -------------------------------- *)

VARIABLES
    pc,          \* where monitorGPU stands
    ctxDone,     \* ctx.Done() is closed
    nvml,        \* the provider session: state, Shutdown calls, calls made outside the session
    deferred,    \* the deferred calls of monitorGPU
    panicErr,    \* the call whose error monitorGPU panicked with ("" if none)
    devicesStr,  \* the configured list
    numDevices,  \* <<n>> once DeviceCount has returned n
    devices,     \* the resolved device indices
    idx,         \* position of the running range loop in its slice
    rd,          \* the next read of the running device pass
    g,           \* the snapshot under construction
    now,         \* time.Now().Unix()
    tick,        \* ticks started
    faults,      \* collector calls that returned an error
    initLog,     \* the provider calls of the initializer and whether each failed
    reads,       \* collector calls made in this tick, handle resolutions included
    res,         \* the result of every read of the latest device pass of this tick
    emitted,     \* snapshots logged in this tick, by position in devices
    nsnap,       \* snapshots logged in the run
    observed,    \* the receive from ctx.Done() has completed
    lastLog,     \* the format of the latest line written to the log
    sink,        \* the snapshot the latest step of monitorGPU has logged, if any
    ctxAtCall,   \* ctx.Done() was closed when monitorGPU was called
    win,         \* when the utilization and the power of this pass were read
    last,        \* per device, its latest logged snapshot: tick, timestamp, read times
    seen         \* <<earlier, later>>: what the latest step's snapshot follows, if it logged one

vars == <<pc, ctxDone, nvml, deferred, panicErr, devicesStr, numDevices,
          devices, idx, rd, g, now, tick, faults, initLog, reads, res,
          emitted, nsnap, observed, lastLog, sink, ctxAtCall, win, last,
          seen>>

\* no read made yet in this pass; index 0 is the handle resolution
NoRes == [r \in 0..Len(Collector) |-> [st |-> "none", vals |-> <<>>]]

\* neither the utilization nor the power read made yet in this pass
NoWin == [util |-> <<>>, power |-> <<>>]

Init ==
    /\ pc = "Initialize"
    /\ ctxDone \in BOOLEAN
    /\ nvml = [state |-> "unloaded", shutdowns |-> 0, outside |-> 0]
    /\ deferred = <<>>
    /\ panicErr = ""
    /\ devicesStr \in DeviceLists
    /\ numDevices = <<>>
    /\ devices = <<>>
    /\ idx = 1
    /\ rd = 1
    /\ g = GPUSnapshot
    /\ now = 0
    /\ tick = 0
    /\ faults = 0
    /\ initLog = <<>>
    /\ reads = 0
    /\ res = NoRes
    /\ emitted = <<>>
    /\ nsnap = 0
    /\ observed = FALSE
    /\ lastLog = ""
    /\ sink = <<>>
    /\ ctxAtCall = ctxDone
    /\ win = NoWin
    /\ last = <<>>
    /\ seen = <<>>

(* ------------------------- session and exits -------------------------- *)

\* a provider call made while the session is not open is counted
Call(n) ==
    IF n.state = "initialized" THEN n ELSE [n EXCEPT !.outside = @ + 1]

\* gonvml.Shutdown
Shutdown(n) == [n EXCEPT !.state = "shutdown", !.shutdowns = @ + 1]

\* the deferred calls run when monitorGPU returns and when it panics
RunDeferred(n, d) == IF d = <<>> THEN n ELSE Shutdown(n)

\* return, with the session as the calls of the step have left it
Return(n) ==
    /\ pc' = "returned"
    /\ nvml' = RunDeferred(n, deferred)
    /\ deferred' = <<>>
    /\ UNCHANGED panicErr

\* (mutant) the process exits on the spot, as log.Fatal does: no deferred
\* call runs
Fatal(e, n) ==
    /\ pc' = "panicked"
    /\ panicErr' = e
    /\ nvml' = n
    /\ UNCHANGED deferred

\* panic(err), err being the error of the named call
Panic(e, n) ==
    /\ pc' = "panicked"
    /\ panicErr' = e
    /\ nvml' = RunDeferred(n, deferred)
    /\ deferred' = <<>>

\* a step that neither returns nor panics
Goto(l, n) ==
    /\ pc' = l
    /\ nvml' = n
    /\ UNCHANGED <<deferred, panicErr>>

\* the head of the initializer's range loop at position i of ds, or the
\* head of the monitor loop once the slice is exhausted
InitLoop(ds, i) == IF i <= Len(ds) THEN "InitHandle" ELSE "Tick"

\* the head of the collector's range loop at position i, or the select
\* that follows the loop
DeviceLoop(ds, i) == IF i <= Len(ds) THEN "Pass" ELSE "Wait"

\* what the environment may answer to a collector call: an error only
\* while the run's fault budget lasts
MayFail == faults < MaxFaults

(* ------------------------------ start-up ------------------------------ *)

\* gonvml.Initialize and the deferred Shutdown
Initialize ==
    /\ pc = "Initialize"
    /\ sink' = <<>>
    /\ seen' = <<>>
    /\ UNCHANGED <<ctxAtCall, win, last>>
    /\ \E err \in BOOLEAN :
         IF err
         THEN /\ lastLog' = "Couldn't initialize gonvml: %v."
              /\ Panic("Initialize", nvml)
         ELSE /\ pc' = "SystemDriverVersion"
              /\ nvml' = [nvml EXCEPT !.state = "initialized"]
              /\ deferred' = <<"Shutdown">>
              /\ UNCHANGED <<panicErr, lastLog>>
    /\ UNCHANGED <<ctxDone, devicesStr, numDevices, devices, idx, rd, g, now,
                   tick, faults, initLog, reads, res, emitted, nsnap,
                   observed>>

\* (mutant) a failed driver lookup panics, as a failed Initialize does
SystemDriverVersionFatal ==
    /\ pc = "SystemDriverVersion"
    /\ sink' = <<>>
    /\ seen' = <<>>
    /\ UNCHANGED <<ctxAtCall, win, last>>
    /\ \E err \in BOOLEAN :
         IF err
         THEN /\ lastLog' = "Error finding nvidia driver: %v"
              /\ Panic("SystemDriverVersion", Call(nvml))
         ELSE /\ lastLog' = "Nvidia driver: %v"
              /\ Goto(IF Len(devicesStr) = 0 THEN "DeviceCount"
                      ELSE "ParseUint", Call(nvml))
    /\ devices' = <<>>
    /\ idx' = 1
    /\ UNCHANGED <<ctxDone, devicesStr, numDevices, rd, g, now, tick, faults,
                   initLog, reads, res, emitted, nsnap, observed>>

\* gonvml.SystemDriverVersion, then the configured list is fetched
SystemDriverVersion ==
    /\ pc = "SystemDriverVersion"
    /\ sink' = <<>>
    /\ seen' = <<>>
    /\ UNCHANGED <<ctxAtCall, win, last>>
    /\ \E err \in BOOLEAN :
         IF err
         THEN /\ lastLog' = "Error finding nvidia driver: %v"
              /\ Return(Call(nvml))
         ELSE /\ lastLog' = "Nvidia driver: %v"
              /\ Goto(IF Len(devicesStr) = 0 THEN "DeviceCount"
                      ELSE "ParseUint", Call(nvml))
    /\ devices' = <<>>
    /\ idx' = 1
    /\ UNCHANGED <<ctxDone, devicesStr, numDevices, rd, g, now, tick, faults,
                   initLog, reads, res, emitted, nsnap, observed>>

\* (mutant) the loop runs through i = n
RECURSIVE AppendThrough(_, _, _)
AppendThrough(ds, i, n) ==
    IF i <= n THEN AppendThrough(Append(ds, i), i + 1, n) ELSE ds

\* for i := 0; i < n; i++ { ds = append(ds, uint(i)) }
RECURSIVE AppendUpTo(_, _, _)
AppendUpTo(ds, i, n) ==
    IF i < n THEN AppendUpTo(Append(ds, i), i + 1, n) ELSE ds

\* no list configured: every device the provider counts
DeviceCount ==
    /\ pc = "DeviceCount"
    /\ sink' = <<>>
    /\ seen' = <<>>
    /\ UNCHANGED <<ctxAtCall, win, last>>
    /\ \/ /\ lastLog' = "Error counting nvidia devices: %v"
          /\ Panic("DeviceCount", Call(nvml))
          /\ UNCHANGED <<numDevices, devices>>
       \/ \E n \in 0..MaxDevices :
            /\ numDevices' = <<n>>
            /\ devices' = AppendUpTo(devices, 0, n)
            /\ Goto(InitLoop(devices', 1), Call(nvml))
            /\ UNCHANGED lastLog
    /\ idx' = 1
    /\ UNCHANGED <<ctxDone, devicesStr, rd, g, now, tick, faults, initLog,
                   reads, res, emitted, nsnap, observed>>

\* (mutant) an entry that does not parse is logged and left out
ParseEntrySkip ==
    /\ pc = "ParseUint"
    /\ sink' = <<>>
    /\ seen' = <<>>
    /\ UNCHANGED <<ctxAtCall, win, last>>
    /\ LET p == ParseDevice(devicesStr[idx])
       IN /\ IF p.err
             THEN /\ lastLog' = "Invalid devices entry %s: %v"
                  /\ UNCHANGED devices
             ELSE /\ devices' = Append(devices, p.n)
                  /\ UNCHANGED lastLog
          /\ idx' = IF idx < Len(devicesStr) THEN idx + 1 ELSE 1
          /\ Goto(IF idx < Len(devicesStr) THEN "ParseUint"
                  ELSE InitLoop(devices', 1), nvml)
    /\ UNCHANGED <<ctxDone, devicesStr, numDevices, rd, g, now, tick, faults,
                   initLog, reads, res, emitted, nsnap, observed>>

\* a list configured: one entry of it is converted
ParseEntry ==
    /\ pc = "ParseUint"
    /\ sink' = <<>>
    /\ seen' = <<>>
    /\ UNCHANGED <<ctxAtCall, win, last>>
    /\ LET p == ParseDevice(devicesStr[idx])
       IN IF p.err
          THEN /\ lastLog' = "Invalid devices entry %s: %v"
               /\ Panic("ParseUint", nvml)
               /\ UNCHANGED <<devices, idx>>
          ELSE /\ devices' = Append(devices, p.n)
               /\ idx' = IF idx < Len(devicesStr) THEN idx + 1 ELSE 1
               /\ Goto(IF idx < Len(devicesStr) THEN "ParseUint"
                       ELSE InitLoop(devices', 1), nvml)
               /\ UNCHANGED lastLog
    /\ UNCHANGED <<ctxDone, devicesStr, numDevices, rd, g, now, tick, faults,
                   initLog, reads, res, emitted, nsnap, observed>>

(* ---------------------------- initializer ----------------------------- *)

InitCall(op, arg, err) ==
    [dev |-> devices[idx], op |-> op, arg |-> arg, err |-> err]

InitHandle ==
    /\ pc = "InitHandle"
    /\ sink' = <<>>
    /\ seen' = <<>>
    /\ UNCHANGED <<ctxAtCall, win, last>>
    /\ \E err \in BOOLEAN :
         /\ initLog' = Append(initLog,
                              InitCall("DeviceHandleByIndex", devices[idx], err))
         /\ IF err
            THEN /\ lastLog' = "DeviceHandleByIndex(%d) error: %v"
                 /\ Panic("DeviceHandleByIndex", Call(nvml))
            ELSE /\ Goto("SetPersistenceMode", Call(nvml))
                 /\ UNCHANGED lastLog
    /\ UNCHANGED <<ctxDone, devicesStr, numDevices, devices, idx, rd, g, now,
                   tick, faults, reads, res, emitted, nsnap, observed>>

SetPersistenceMode ==
    /\ pc = "SetPersistenceMode"
    /\ sink' = <<>>
    /\ seen' = <<>>
    /\ UNCHANGED <<ctxAtCall, win, last>>
    /\ \E err \in BOOLEAN :
         /\ initLog' = Append(initLog,
                              InitCall("SetPersistenceMode", nvmlFeatureEnabled, err))
         /\ IF err
            THEN /\ lastLog' = "SetPersistenceMode() error: %v"
                 /\ Panic("SetPersistenceMode", Call(nvml))
            ELSE /\ Goto("SetComputeMode", Call(nvml))
                 /\ UNCHANGED lastLog
    /\ UNCHANGED <<ctxDone, devicesStr, numDevices, devices, idx, rd, g, now,
                   tick, faults, reads, res, emitted, nsnap, observed>>

\* (mutant) a failed compute-mode write is logged and the device skipped
SetComputeModeSkip ==
    /\ pc = "SetComputeMode"
    /\ sink' = <<>>
    /\ seen' = <<>>
    /\ UNCHANGED <<ctxAtCall, win, last>>
    /\ \E err \in BOOLEAN :
         /\ initLog' = Append(initLog,
                              InitCall("SetComputeMode",
                                       nvmlComputeExclusiveProcess, err))
         /\ lastLog' = IF err THEN "SetComputeMode() error: %v" ELSE lastLog
    /\ Goto(InitLoop(devices, idx + 1), Call(nvml))
    /\ idx' = idx + 1
    /\ UNCHANGED <<ctxDone, devicesStr, numDevices, devices, rd, g, now, tick,
                   faults, reads, res, emitted, nsnap, observed>>

SetComputeMode ==
    /\ pc = "SetComputeMode"
    /\ sink' = <<>>
    /\ seen' = <<>>
    /\ UNCHANGED <<ctxAtCall, win, last>>
    /\ \E err \in BOOLEAN :
         /\ initLog' = Append(initLog,
                              InitCall("SetComputeMode",
                                       nvmlComputeExclusiveProcess, err))
         /\ IF err
            THEN /\ lastLog' = "SetComputeMode() error: %v"
                 /\ Panic("SetComputeMode", Call(nvml))
                 /\ UNCHANGED idx
            ELSE /\ Goto(InitLoop(devices, idx + 1), Call(nvml))
                 /\ idx' = idx + 1
                 /\ UNCHANGED lastLog
    /\ UNCHANGED <<ctxDone, devicesStr, numDevices, devices, rd, g, now, tick,
                   faults, reads, res, emitted, nsnap, observed>>

(* ------------------------------ monitor ------------------------------- *)

\* (mutant) the context is looked at before every tick: for ctx.Err() == nil
StartTickChecked ==
    /\ pc = "Tick"
    /\ sink' = <<>>
    /\ seen' = <<>>
    /\ UNCHANGED <<ctxAtCall, win, last>>
    /\ IF ctxDone
       THEN /\ observed' = TRUE
            /\ Return(nvml)
            /\ UNCHANGED <<tick, idx, res, emitted, reads>>
       ELSE /\ tick' = tick + 1
            /\ idx' = 1
            /\ res' = NoRes
            /\ emitted' = [p \in 1..Len(devices) |-> 0]
            /\ reads' = 0
            /\ Goto(DeviceLoop(devices, 1), nvml)
            /\ UNCHANGED observed
    /\ UNCHANGED <<ctxDone, devicesStr, numDevices, devices, rd, g, now,
                   faults, initLog, nsnap, lastLog>>

\* for { for _, i := range devices {
StartTick ==
    /\ pc = "Tick"
    /\ sink' = <<>>
    /\ seen' = <<>>
    /\ UNCHANGED <<ctxAtCall, win, last>>
    /\ tick' = tick + 1
    /\ idx' = 1
    /\ res' = NoRes
    /\ emitted' = [p \in 1..Len(devices) |-> 0]
    /\ reads' = 0
    /\ Goto(DeviceLoop(devices, 1), nvml)
    /\ UNCHANGED <<ctxDone, devicesStr, numDevices, devices, rd, g, now,
                   faults, initLog, nsnap, observed, lastLog>>

\* (mutant) the range loop leaves out every other entry
NextDeviceSkip ==
    /\ idx' = idx + 2
    /\ pc' = DeviceLoop(devices, idx + 2)
    /\ UNCHANGED <<deferred, panicErr>>

\* `continue`, and the end of the loop body: on to the next device
NextDevice ==
    /\ idx' = idx + 1
    /\ pc' = DeviceLoop(devices, idx + 1)
    /\ UNCHANGED <<deferred, panicErr>>

\* (mutant) a handle that does not resolve is fatal, as in the initializer
BeginPassFatal ==
    /\ pc = "Pass"
    /\ sink' = <<>>
    /\ seen' = <<>>
    /\ win' = NoWin
    /\ UNCHANGED <<ctxAtCall, last>>
    /\ g' = [GPUSnapshot EXCEPT !.TimeStamp = now]
    /\ reads' = reads + 1
    /\ \E err \in (IF MayFail THEN BOOLEAN ELSE {FALSE}) :
         /\ res' = [NoRes EXCEPT ![0] =
                      [st |-> IF err THEN "err" ELSE "ok", vals |-> <<>>]]
         /\ IF err
            THEN /\ lastLog' = "DeviceHandleByIndex(%d) error: %v"
                 /\ faults' = faults + 1
                 /\ Panic("DeviceHandleByIndex", Call(nvml))
                 /\ UNCHANGED <<idx, rd>>
            ELSE /\ Goto("Read", Call(nvml))
                 /\ rd' = 1
                 /\ UNCHANGED <<idx, faults, lastLog>>
    /\ UNCHANGED <<ctxDone, devicesStr, numDevices, devices, now, tick,
                   initLog, emitted, nsnap, observed>>

\* a fresh snapshot is stamped and the device handle resolved
BeginPass ==
    /\ pc = "Pass"
    /\ sink' = <<>>
    /\ seen' = <<>>
    /\ win' = NoWin
    /\ UNCHANGED <<ctxAtCall, last>>
    /\ g' = [GPUSnapshot EXCEPT !.TimeStamp = now]
    /\ reads' = reads + 1
    /\ nvml' = Call(nvml)
    /\ \E err \in (IF MayFail THEN BOOLEAN ELSE {FALSE}) :
         /\ res' = [NoRes EXCEPT ![0] =
                      [st |-> IF err THEN "err" ELSE "ok", vals |-> <<>>]]
         /\ IF err
            THEN /\ lastLog' = "DeviceHandleByIndex(%d) error: %v"
                 /\ faults' = faults + 1
                 /\ NextDevice
                 /\ UNCHANGED rd
            ELSE /\ pc' = "Read"
                 /\ rd' = 1
                 /\ UNCHANGED <<idx, deferred, panicErr, faults, lastLog>>
    /\ UNCHANGED <<ctxDone, devicesStr, numDevices, devices, now, tick,
                   initLog, emitted, nsnap, observed>>

\* g.F = v for the fields F of read r and the values v it returned
Store(s, r, vals) ==
    [f \in DOMAIN s |->
       IF \E j \in 1..Arity(r) : Collector[r].fields[j] = f
       THEN vals[CHOOSE j \in 1..Arity(r) : Collector[r].fields[j] = f]
       ELSE s[f]]

Outcome(out) == [st |-> IF out.err THEN "err" ELSE "ok", vals |-> out.vals]

\* (mutant) an identity read that fails is logged and the pass goes on
IdentityReadSoft ==
    /\ pc = "Read"
    /\ sink' = <<>>
    /\ seen' = <<>>
    /\ UNCHANGED <<ctxAtCall, win, last>>
    /\ rd \in IdentityReads
    /\ reads' = reads + 1
    /\ nvml' = Call(nvml)
    /\ \E out \in Results(devices[idx], rd, MayFail) :
         /\ res' = [res EXCEPT ![rd] = Outcome(out)]
         /\ IF out.err
            THEN /\ lastLog' = Collector[rd].msg
                 /\ faults' = faults + 1
            ELSE UNCHANGED <<faults, lastLog>>
         /\ g' = Store(g, rd, out.vals)
    /\ rd' = rd + 1
    /\ UNCHANGED <<pc, idx, deferred, panicErr>>
    /\ UNCHANGED <<ctxDone, devicesStr, numDevices, devices, now, tick,
                   initLog, emitted, nsnap, observed>>

\* (mutant) a failed identity read leaves the device loop: break for continue
IdentityReadBreak ==
    /\ pc = "Read"
    /\ sink' = <<>>
    /\ seen' = <<>>
    /\ UNCHANGED <<ctxAtCall, win, last>>
    /\ rd \in IdentityReads
    /\ reads' = reads + 1
    /\ nvml' = Call(nvml)
    /\ \E out \in Results(devices[idx], rd, MayFail) :
         /\ res' = [res EXCEPT ![rd] = Outcome(out)]
         /\ IF out.err
            THEN /\ lastLog' = Collector[rd].msg
                 /\ faults' = faults + 1
                 /\ idx' = Len(devices) + 1
                 /\ pc' = "Wait"
                 /\ UNCHANGED <<deferred, panicErr, g, rd>>
            ELSE /\ g' = Store(g, rd, out.vals)
                 /\ rd' = rd + 1
                 /\ UNCHANGED <<pc, idx, deferred, panicErr, faults, lastLog>>
    /\ UNCHANGED <<ctxDone, devicesStr, numDevices, devices, now, tick,
                   initLog, emitted, nsnap, observed>>

\* a read of the identity block: its error abandons the device pass
IdentityRead ==
    /\ pc = "Read"
    /\ sink' = <<>>
    /\ seen' = <<>>
    /\ UNCHANGED <<ctxAtCall, win, last>>
    /\ rd \in IdentityReads
    /\ reads' = reads + 1
    /\ nvml' = Call(nvml)
    /\ \E out \in Results(devices[idx], rd, MayFail) :
         /\ res' = [res EXCEPT ![rd] = Outcome(out)]
         /\ IF out.err
            THEN /\ lastLog' = Collector[rd].msg
                 /\ faults' = faults + 1
                 /\ NextDevice
                 /\ UNCHANGED <<g, rd>>
            ELSE /\ g' = Store(g, rd, out.vals)
                 /\ rd' = rd + 1
                 /\ UNCHANGED <<pc, idx, deferred, panicErr, faults, lastLog>>
    /\ UNCHANGED <<ctxDone, devicesStr, numDevices, devices, now, tick,
                   initLog, emitted, nsnap, observed>>

\* the time of the call is kept for the two reads that average over a window
Clocked(w, r) ==
    IF Collector[r].call = "AverageGPUUtilization" THEN [w EXCEPT !.util = <<now>>]
    ELSE IF Collector[r].call = "AveragePowerUsage" THEN [w EXCEPT !.power = <<now>>]
    ELSE w

\* (mutant) a dynamic read that fails abandons the pass
DynamicReadStrict ==
    /\ pc = "Read"
    /\ sink' = <<>>
    /\ seen' = <<>>
    /\ win' = Clocked(win, rd)
    /\ UNCHANGED <<ctxAtCall, last>>
    /\ rd \in DynamicReads
    /\ reads' = reads + 1
    /\ nvml' = Call(nvml)
    /\ \E out \in Results(devices[idx], rd, MayFail) :
         /\ res' = [res EXCEPT ![rd] = Outcome(out)]
         /\ IF out.err
            THEN /\ lastLog' = Collector[rd].msg
                 /\ faults' = faults + 1
                 /\ NextDevice
                 /\ UNCHANGED <<g, rd>>
            ELSE /\ g' = Store(g, rd, out.vals)
                 /\ rd' = rd + 1
                 /\ pc' = IF rd < Len(Collector) THEN "Read" ELSE "Emit"
                 /\ UNCHANGED <<idx, deferred, panicErr, faults, lastLog>>
    /\ UNCHANGED <<ctxDone, devicesStr, numDevices, devices, now, tick,
                   initLog, emitted, nsnap, observed>>

\* a read of the dynamic block: its error is logged, its result stored
DynamicRead ==
    /\ pc = "Read"
    /\ sink' = <<>>
    /\ seen' = <<>>
    /\ win' = Clocked(win, rd)
    /\ UNCHANGED <<ctxAtCall, last>>
    /\ rd \in DynamicReads
    /\ reads' = reads + 1
    /\ nvml' = Call(nvml)
    /\ \E out \in Results(devices[idx], rd, MayFail) :
         /\ res' = [res EXCEPT ![rd] = Outcome(out)]
         /\ IF out.err
            THEN /\ lastLog' = Collector[rd].msg
                 /\ faults' = faults + 1
            ELSE UNCHANGED <<faults, lastLog>>
         /\ g' = Store(g, rd, out.vals)
    /\ rd' = rd + 1
    /\ pc' = IF rd < Len(Collector) THEN "Read" ELSE "Emit"
    /\ UNCHANGED <<ctxDone, deferred, panicErr, devicesStr, numDevices,
                   devices, idx, now, tick, initLog, emitted, nsnap,
                   observed>>

\* what is kept of the snapshot being logged: the tick, the timestamp, and
\* the times of its two averaging reads
Logged == [tick |-> tick, ts |-> g.TimeStamp, util |-> win.util, power |-> win.power]

\* the latest snapshot logged for device d, <<>> if there is none
Latest(l, d) == IF d \in DOMAIN l THEN <<l[d]>> ELSE <<>>

\* log.Printf("GPU Snapshot: %+v", g)
EmitSnapshot ==
    /\ pc = "Emit"
    /\ lastLog' = "GPU Snapshot: %+v"
    /\ sink' = <<g>>
    /\ seen' = <<Latest(last, devices[idx]), Logged>>
    /\ last' = (devices[idx] :> Logged) @@ last
    /\ UNCHANGED <<ctxAtCall, win>>
    /\ nsnap' = nsnap + 1
    /\ emitted' = [emitted EXCEPT ![idx] = @ + 1]
    /\ NextDevice
    /\ UNCHANGED <<ctxDone, nvml, devicesStr, numDevices, devices, rd, g, now,
                   tick, faults, initLog, reads, res, observed>>

\* (mutant) case <-ctx.Done(): break, which leaves the select and not the loop
WaitDoneBreak ==
    /\ pc = "Wait"
    /\ sink' = <<>>
    /\ seen' = <<>>
    /\ UNCHANGED <<ctxAtCall, win, last>>
    /\ ctxDone
    /\ observed' = TRUE
    /\ Goto("Tick", nvml)
    /\ UNCHANGED <<ctxDone, devicesStr, numDevices, devices, idx, rd, g, now,
                   tick, faults, initLog, reads, res, emitted, nsnap, lastLog>>

\* select: case <-ctx.Done(): return
WaitDone ==
    /\ pc = "Wait"
    /\ sink' = <<>>
    /\ seen' = <<>>
    /\ UNCHANGED <<ctxAtCall, win, last>>
    /\ ctxDone
    /\ observed' = TRUE
    /\ Return(nvml)
    /\ UNCHANGED <<ctxDone, devicesStr, numDevices, devices, idx, rd, g, now,
                   tick, faults, initLog, reads, res, emitted, nsnap, lastLog>>

\* (mutant) the timer runs one second short of the averaging window
WaitTimerShort ==
    /\ pc = "Wait"
    /\ sink' = <<>>
    /\ seen' = <<>>
    /\ ~ctxDone
    /\ tick < MaxTicks
    /\ now' = now + gpuPeriod - 1
    /\ Goto("Tick", nvml)
    /\ UNCHANGED <<ctxDone, devicesStr, numDevices, devices, idx, rd, g, tick,
                   faults, initLog, reads, res, emitted, nsnap, observed,
                   lastLog, ctxAtCall, win, last>>

\* (mutant) the devices are configured anew before every tick
WaitTimerReinit ==
    /\ pc = "Wait"
    /\ sink' = <<>>
    /\ seen' = <<>>
    /\ ~ctxDone
    /\ tick < MaxTicks
    /\ now' = now + gpuPeriod
    /\ idx' = 1
    /\ Goto(InitLoop(devices, 1), nvml)
    /\ UNCHANGED <<ctxDone, devicesStr, numDevices, devices, rd, g, tick,
                   faults, initLog, reads, res, emitted, nsnap, observed,
                   lastLog, ctxAtCall, win, last>>

\* (mutant) the timer case may be taken though the context is done
WaitTimerRace ==
    /\ pc = "Wait"
    /\ sink' = <<>>
    /\ seen' = <<>>
    /\ tick < MaxTicks
    /\ now' = now + gpuPeriod
    /\ Goto("Tick", nvml)
    /\ UNCHANGED <<ctxDone, devicesStr, numDevices, devices, idx, rd, g, tick,
                   faults, initLog, reads, res, emitted, nsnap, observed,
                   lastLog, ctxAtCall, win, last>>

\* select: case <-time.After(gpuPeriod): the timer is armed on entry to the
\* select, so a context already done is the only ready case
WaitTimer ==
    /\ pc = "Wait"
    /\ sink' = <<>>
    /\ seen' = <<>>
    /\ UNCHANGED <<ctxAtCall, win, last>>
    /\ ~ctxDone
    /\ tick < MaxTicks
    /\ now' = now + gpuPeriod
    /\ Goto("Tick", nvml)
    /\ UNCHANGED <<ctxDone, devicesStr, numDevices, devices, idx, rd, g, tick,
                   faults, initLog, reads, res, emitted, nsnap, observed,
                   lastLog>>

(* ---------------------------- environment ----------------------------- *)

\* seconds gone by since the loop started, beyond one period per timer wait
Drift == now - gpuPeriod * (tick - 1)

\* a second goes by while a collector call, the logging of the snapshot or
\* the wait is under way
Elapse ==
    /\ pc \in {"Pass", "Read", "Emit", "Wait"}
    /\ Drift < MaxElapse
    /\ now' = now + 1
    /\ UNCHANGED <<pc, ctxDone, nvml, deferred, panicErr, devicesStr,
                   numDevices, devices, idx, rd, g, tick, faults, initLog,
                   reads, res, emitted, nsnap, observed, lastLog, sink,
                   ctxAtCall, win, last, seen>>

\* the caller cancels the context
Cancel ==
    /\ ~ctxDone
    /\ pc \notin {"returned", "panicked"}
    /\ ctxDone' = TRUE
    /\ UNCHANGED <<pc, nvml, deferred, panicErr, devicesStr, numDevices,
                   devices, idx, rd, g, now, tick, faults, initLog, reads,
                   res, emitted, nsnap, observed, lastLog, sink, ctxAtCall,
                   win, last, seen>>

Next ==
    \/ Initialize
    \/ SystemDriverVersion
    \/ DeviceCount
    \/ ParseEntry
    \/ InitHandle
    \/ SetPersistenceMode
    \/ SetComputeMode
    \/ StartTick
    \/ BeginPass
    \/ IdentityRead
    \/ DynamicRead
    \/ EmitSnapshot
    \/ WaitDone
    \/ WaitTimer
    \/ Cancel

\* every step takes no time but the timer wait
Spec == Init /\ [][Next]_vars

\* the steps of monitorGPU, the caller's left out
Program ==
    \/ Initialize
    \/ SystemDriverVersion
    \/ DeviceCount
    \/ ParseEntry
    \/ InitHandle
    \/ SetPersistenceMode
    \/ SetComputeMode
    \/ StartTick
    \/ BeginPass
    \/ IdentityRead
    \/ DynamicRead
    \/ EmitSnapshot
    \/ WaitDone
    \/ WaitTimer

\* every call monitorGPU makes returns and the goroutine is scheduled: a
\* step that can be taken is taken in the end
FairSpec == Spec /\ WF_vars(Program)

\* the steps take time, and at most MaxTimedFaults collector calls fail
\* (what a failed call does to a pass is checked under Spec)
TimedNext ==
    \/ Next /\ faults' <= MaxTimedFaults
    \/ Elapse

TimedSpec == Init /\ [][TimedNext]_vars

TypeOK ==
    /\ pc \in {"Initialize", "SystemDriverVersion", "DeviceCount", "ParseUint",
               "InitHandle", "SetPersistenceMode", "SetComputeMode", "Tick",
               "Pass", "Read", "Emit", "Wait", "returned", "panicked"}
    /\ ctxDone \in BOOLEAN
    /\ idx \in 1..(Len(devices) + Len(devicesStr) + 1)
    /\ rd \in 1..(Len(Collector) + 1)
    /\ faults \in 0..MaxFaults
    /\ tick \in 0..MaxTicks

(* ------------------------------ properties ---------------------------- *)

Terminal == pc \in {"returned", "panicked"}

\* a device pass is in progress
InPass == pc \in {"Pass", "Read", "Emit"}

\* the sampling loop is running
Running == pc \in {"Tick", "Pass", "Read", "Emit", "Wait"}

\* the device pass res describes has ended; it was the pass of position idx - 1
Ended == pc \in {"Pass", "Wait", "Tick", "returned"} /\ res[0].st # "none"

\* the handle resolution and the seven identity reads of the pass succeeded
IdentityOK == res[0].st = "ok" /\ \A r \in IdentityReads : res[r].st = "ok"

Failed(R) == {r \in R : res[r].st = "err"}

\* the decimal numerals among the entries and the numbers they denote
Decimal == (<<"0">> :> 0) @@ (<<"1", "2">> :> 12)

AllValid == \A j \in 1..Len(devicesStr) : devicesStr[j] \in DOMAIN Decimal

\* the selector has produced its result
Selected ==
    \/ pc \in {"InitHandle", "SetPersistenceMode", "SetComputeMode"}
    \/ Running
    \/ observed
    \/ panicErr \in {"DeviceHandleByIndex", "SetPersistenceMode", "SetComputeMode"}

\* C1: a cancellation signalled while a device pass is in progress does not
\* cut the pass short (the pass ends by its snapshot or by a failed read, and
\* control goes on to the next device or to the wait point); the receive
\* from ctx.Done() happens at the wait point only and makes monitorGPU
\* return; at the wait point a cancelled context never lets a new tick
\* start; and once the cancellation has been observed no device read is made
\* and no snapshot is emitted.
C1_CancelStopsAfterPass ==
    [][ /\ (~observed /\ observed') =>
              (ctxDone /\ pc = "Wait" /\ idx = Len(devices) + 1
                 /\ pc' = "returned")
        /\ (ctxDone /\ InPass) => pc' \in {"Pass", "Read", "Emit", "Wait"}
        /\ (ctxDone /\ InPass /\ idx' # idx) =>
              (sink' # <<>> \/ faults' > faults)
        /\ (ctxDone /\ pc = "Wait") => pc' \in {"Wait", "returned"}
        /\ observed => (pc' = pc /\ reads' = reads /\ tick' = tick
                          /\ nsnap' = nsnap /\ res' = res /\ sink' = sink)
      ]_vars

\* the second tick began with the context not cancelled; the cancellation
\* came during it, both device passes were completed, then the loop stopped
C1_Witness ==
    /\ observed
    /\ pc = "returned"
    /\ tick = 2
    /\ Len(devices) = 2
    /\ emitted = <<1, 1>>

\* C2: when the handle resolution or an identity read of a device pass has
\* failed, no later read of that pass is made and no snapshot is logged for
\* that device in that tick.
C2_IdentityFailureSuppressesPass ==
    \A r \in {0} \cup IdentityReads :
        res[r].st = "err" =>
            /\ \A q \in (r + 1)..Len(Collector) : res[q].st = "none"
            /\ pc \notin {"Read", "Emit"}
            /\ sink = <<>>
            /\ emitted[idx - 1] = 0

\* the UUID read of the second device failed after the first device's pass
C2_Witness ==
    /\ \E r \in IdentityReads : Collector[r].call = "UUID" /\ res[r].st = "err"
    /\ pc = "Wait"
    /\ idx = 3
    /\ emitted = <<1, 0>>

\* C3: a device pass whose handle resolution and identity reads succeeded
\* has attempted every dynamic read, whichever of them failed, and has
\* logged exactly one snapshot, in which every field whose read succeeded
\* holds the value read; no snapshot is logged before the pass is over.
C3_OneSnapshotDespiteDynamicFailures ==
    /\ (Ended /\ IdentityOK) =>
          /\ \A r \in DynamicReads : res[r].st \in {"ok", "err"}
          /\ emitted[idx - 1] = 1
    /\ sink # <<>> =>
          /\ Ended /\ IdentityOK
          /\ sink[1] = g
          /\ \A r \in 1..Len(Collector) :
                res[r].st = "ok" =>
                   \A j \in 1..Arity(r) :
                      sink[1][Collector[r].fields[j]] = res[r].vals[j]
    /\ pc \in {"Read", "Emit"} => emitted[idx] = 0

\* a snapshot logged after two dynamic reads of the pass failed, the first
\* of them not the last read
C3_Witness ==
    /\ sink # <<>>
    /\ Cardinality(Failed(DynamicReads)) >= 2
    /\ \E r \in Failed(DynamicReads) : \E q \in DynamicReads :
          q > r /\ res[q].st = "ok"

\* C4: in every logged snapshot, every field of a dynamic read that failed
\* holds its zero value.
C4_FailedFieldsZero ==
    sink # <<>> =>
        \A r \in Failed(DynamicReads) : \A j \in 1..Arity(r) :
            sink[1][Collector[r].fields[j]] = GPUSnapshot[Collector[r].fields[j]]

\* a call of the initializer returned an error
InitFailed == \E j \in 1..Len(initLog) : initLog[j].err

\* C5: when a call of the initializer has failed, monitorGPU has panicked:
\* no tick was started, no collector read made and no snapshot logged.
C5_InitFailureNeverSamples ==
    InitFailed =>
        /\ pc = "panicked"
        /\ tick = 0
        /\ reads = 0
        /\ res = NoRes
        /\ nsnap = 0
        /\ sink = <<>>

\* the compute-mode write of the second device failed after the first
\* device had been configured
C5_Witness ==
    /\ Len(initLog) = 6
    /\ initLog[6].err
    /\ \A j \in 1..5 : ~initLog[j].err
    /\ pc = "panicked"

\* C6: while the loop is running, every step of monitorGPU keeps it running,
\* except the receive from ctx.Done() at the wait point; a step that ends a
\* device pass, with or without a snapshot, leads to the next device or,
\* after the last one, to the wait point; and every step inside a pass moves
\* the pass forward, so that the wait point is reached.
C6_ReadFailuresNeverStopLoop ==
    [][ Running =>
          /\ \/ pc' \in {"Tick", "Pass", "Read", "Emit", "Wait"}
             \/ pc = "Wait" /\ ctxDone /\ observed' /\ pc' = "returned"
          /\ faults' > faults =>
                pc' \in {"Pass", "Read", "Emit", "Wait"}
          /\ (InPass /\ <<pc, idx, rd, reads>>' # <<pc, idx, rd, reads>>) =>
                \/ idx' = idx /\ pc = "Pass" /\ pc' = "Read"
                \/ idx' = idx /\ pc = "Read" /\ rd' = rd + 1
                      /\ pc' = (IF rd < Len(Collector) THEN "Read" ELSE "Emit")
                \/ idx' = idx + 1
                      /\ pc' = (IF idx < Len(devices) THEN "Pass" ELSE "Wait")
      ]_vars

\* the wait point of the second tick, reached after reads failed in both ticks
C6_Witness ==
    /\ pc = "Wait"
    /\ tick = 2
    /\ faults >= 2
    /\ nsnap < 2 * Len(devices)
    /\ Failed(0..Len(Collector)) # {}

\* C7: no provider call is made outside the session, Shutdown is not called
\* while monitorGPU runs, and when monitorGPU has ended with the session
\* initialized, Shutdown has been called exactly once.
C7_ShutdownExactlyOnce ==
    /\ nvml.outside = 0
    /\ ~Terminal => nvml.shutdowns = 0
    /\ (Terminal /\ panicErr # "Initialize") =>
          (nvml.shutdowns = 1 /\ nvml.state = "shutdown")
    /\ (Terminal /\ panicErr = "Initialize") =>
          (nvml.shutdowns = 0 /\ nvml.state = "unloaded")

\* the session shut down after an initializer failure
C7_Witness ==
    /\ pc = "panicked"
    /\ panicErr = "SetPersistenceMode"
    /\ nvml.shutdowns = 1

\* C8: with an empty list, the resolved sequence is 0, 1, ..., count-1 for
\* the count the provider reported, and the count is asked for.
C8_EmptyListSelectsAll ==
    /\ numDevices # <<>> =>
          /\ devicesStr = <<>>
          /\ Len(devices) = numDevices[1]
          /\ \A j \in 1..Len(devices) : devices[j] = j - 1
    /\ (devicesStr = <<>> /\ Selected) => numDevices # <<>>

\* two devices counted and selected
C8_Witness ==
    /\ numDevices = <<2>>
    /\ devices = <<0, 1>>
    /\ pc = "InitHandle"

\* C9: with a non-empty list of decimal numerals, the entries converted so
\* far are the numbers the numerals denote, in the order of the list, the
\* selector's result is the whole list converted, and DeviceCount is not
\* called.
C9_ExplicitListKeptInOrder ==
    (devicesStr # <<>> /\ AllValid) =>
        /\ numDevices = <<>>
        /\ panicErr \notin {"ParseUint", "DeviceCount"}
        /\ Len(devices) <= Len(devicesStr)
        /\ \A j \in 1..Len(devices) : devices[j] = Decimal[devicesStr[j]]
        /\ Selected => Len(devices) = Len(devicesStr)

\* the list "12", "0" resolved to 12, 0
C9_Witness ==
    /\ devicesStr = << <<"1", "2">>, <<"0">> >>
    /\ devices = <<12, 0>>
    /\ pc = "InitHandle"

\* C10: with a list that holds an entry that is no decimal numeral,
\* monitorGPU never gets past the conversion of the list: a run that gets
\* to the list (the session opened, the driver version found) converts the
\* entries before the bad one and panics at it, and in no run is a device
\* configured or read or a snapshot logged.
C10_BadEntryIsFatal ==
    (devicesStr # <<>> /\ ~AllValid) =>
        /\ pc \in {"Initialize", "SystemDriverVersion", "ParseUint",
                   "returned", "panicked"}
        /\ pc = "panicked" => panicErr \in {"Initialize", "ParseUint"}
        /\ pc = "returned" => lastLog = "Error finding nvidia driver: %v"
        /\ pc = "ParseUint" =>
              \A j \in 1..(idx - 1) : devicesStr[j] \in DOMAIN Decimal
        /\ panicErr = "ParseUint" => devicesStr[idx] \notin DOMAIN Decimal
        /\ ~observed
        /\ initLog = <<>>
        /\ tick = 0
        /\ reads = 0
        /\ nsnap = 0

\* the panic at a bad second entry, the first one converted before it
C10_Witness ==
    /\ pc = "panicked"
    /\ panicErr = "ParseUint"
    /\ devices = <<12>>
    /\ idx = 2

\* the calls the initializer makes for position j of the resolved sequence
InitCallsOf(j) ==
    << [dev |-> devices[j], op |-> "DeviceHandleByIndex", arg |-> devices[j],
        err |-> FALSE],
       [dev |-> devices[j], op |-> "SetPersistenceMode",
        arg |-> nvmlFeatureEnabled, err |-> FALSE],
       [dev |-> devices[j], op |-> "SetComputeMode",
        arg |-> nvmlComputeExclusiveProcess, err |-> FALSE] >>

\* C11: before the first tick no collector read is made and no snapshot
\* logged; once the loop runs, and after it has stopped, the calls of the
\* initializer are, for every entry of the resolved sequence in turn, the
\* handle resolution, the persistence-mode write (enabled) and the
\* compute-mode write (exclusive process), all successful, and nothing else:
\* no write is added during or after a tick.
C11_InitOnceBeforeFirstTick ==
    /\ tick = 0 => (reads = 0 /\ res = NoRes /\ nsnap = 0 /\ sink = <<>>)
    /\ (Running \/ observed) =>
          /\ Len(initLog) = 3 * Len(devices)
          /\ \A j \in 1..Len(devices) : \A k \in 1..3 :
                initLog[3 * (j - 1) + k] = InitCallsOf(j)[k]

\* the second tick under way for two devices, each configured once
C11_Witness ==
    /\ tick = 2
    /\ pc = "Read"
    /\ Len(devices) = 2
    /\ Len(initLog) = 6
    /\ nsnap >= 1

\* the snapshot just logged follows a snapshot of the same device logged in
\* the tick before
Consecutive ==
    /\ seen # <<>>
    /\ seen[1] # <<>>
    /\ seen[2].tick = seen[1][1].tick + 1

\* the averaging window of a read made at time t
WindowStart(t) == t - gpuPeriod

\* C12: when a snapshot is logged for a device that had one logged in the
\* tick before, its timestamp is greater than the earlier one's, and its
\* utilization window and its power window begin no earlier than the
\* earlier snapshot's windows ended, whatever time the passes took.
C12_ConsecutiveTicksApart ==
    Consecutive =>
        /\ seen[2].ts > seen[1][1].ts
        /\ WindowStart(seen[2].util[1]) >= seen[1][1].util[1]
        /\ WindowStart(seen[2].power[1]) >= seen[1][1].power[1]

\* snapshots of one device in two consecutive ticks, time having gone by
\* between the two timestamps, between the two utilization reads, and
\* between the utilization read and the power read of the later pass
C12_Witness ==
    /\ Consecutive
    /\ seen[2].ts = seen[1][1].ts + gpuPeriod + 1
    /\ seen[2].util[1] = seen[1][1].util[1] + gpuPeriod + 2
    /\ seen[2].power[1] > seen[2].util[1]

\* the positions of the resolved sequence that name device d
PositionsOf(d) == {p \in 1..Len(devices) : devices[p] = d}

\* C13: the resolved sequence holds no index twice, and in a tick at most
\* one snapshot is logged per device.
C13_ResolvedUnique ==
    /\ \A p \in 1..Len(devices) : PositionsOf(devices[p]) = {p}
    /\ pc \in {"Pass", "Read", "Emit", "Wait"} =>
          \A p \in 1..Len(devices) :
             Cardinality({q \in PositionsOf(devices[p]) : emitted[q] > 0}) <= 1

\* C14: at the wait point a context that is done lets no new tick start:
\* the only step of monitorGPU from there is the return; and, every call
\* returning, a loop whose context is done comes to the return, the
\* receive from ctx.Done() made.
C14_CancelStopsWithoutTimer ==
    /\ [][(ctxDone /\ pc = "Wait") =>
             /\ pc' \in {"Wait", "returned"}
             /\ tick' = tick
             /\ now' = now]_vars
    /\ (ctxDone /\ Running) ~> (pc = "returned" /\ observed)

\* the loop stopped in its second tick, the context done after the loop
\* had started, one of the passes abandoned
C14_Witness ==
    /\ pc = "returned"
    /\ observed
    /\ ~ctxAtCall
    /\ tick = 2
    /\ Len(devices) = 1
    /\ nsnap = 1

\* C15: when a snapshot is logged for a device that had one logged in the
\* tick before, its utilization read and its power read were made exactly
\* one period after the earlier snapshot's: each window begins where the
\* earlier one ended.
C15_WindowsContiguous ==
    Consecutive =>
        /\ WindowStart(seen[2].util[1]) = seen[1][1].util[1]
        /\ WindowStart(seen[2].power[1]) = seen[1][1].power[1]

\* the positions of the resolved sequence with no snapshot in this tick
Unlogged == {p \in 1..Len(devices) : emitted[p] = 0}

\* the step at which a handle resolution or an identity read fails moves on
\* to the next entry and touches nothing else of the tick
AbandonConfined ==
    (InPass /\ faults' > faults /\ idx' # idx) =>
        /\ idx' = idx + 1
        /\ pc' = (IF idx < Len(devices) THEN "Pass" ELSE "Wait")
        /\ UNCHANGED <<devices, tick, now, emitted, nsnap, last, ctxDone,
                       observed, initLog>>
        /\ sink' = <<>>

\* a pass that gets to its reads starts from an empty snapshot, stamped,
\* and from the first read
PassFromScratch ==
    (pc = "Pass" /\ pc' = "Read") =>
        /\ g' = [GPUSnapshot EXCEPT !.TimeStamp = now]
        /\ rd' = 1
        /\ \A r \in 1..Len(Collector) : res'[r].st = "none"

\* C16: the step at which a handle resolution or an identity read fails
\* moves on to the next entry of the resolved sequence (to the wait point
\* after the last) and touches nothing else of the tick: the snapshots
\* logged, the sequence, the tick and the clock stay as they are; at the
\* wait point every entry has had its pass, and no more entries are without
\* a snapshot than calls have failed; every pass, in every tick, starts from
\* an empty snapshot and the first read, and a snapshot logged for a device
\* that had none before carries the device's own identity readings.
C16_FailureConfinedToPass ==
    /\ [][AbandonConfined /\ PassFromScratch]_vars
    /\ [](pc = "Wait" =>
             (idx = Len(devices) + 1 /\ Cardinality(Unlogged) <= faults))
    /\ []((sink # <<>> /\ seen[1] = <<>>) =>
             \A r \in IdentityReads :
                sink[1][Collector[r].fields[1]] = Reading(devices[idx - 1], r, 1))

\* in the first tick the pass of the first device was abandoned and the
\* second device logged its snapshot all the same; in the second tick the
\* first device logs the snapshot it could not log before
C16_Witness ==
    /\ tick = 2
    /\ Len(devices) = 2
    /\ idx = 2
    /\ sink # <<>>
    /\ seen[1] = <<>>
    /\ devices[2] \in DOMAIN last
    /\ last[devices[2]].tick = 1

\* the step ends a device pass: it logs the snapshot or it fails a call
\* that abandons the pass
EndsPass == InPass /\ (sink' # <<>> \/ faults' > faults)

\* the position in the sequence changes at the start of a tick, to the
\* first entry, and at the end of a pass, to the next entry
InSequence ==
    (Running /\ idx' # idx) =>
        \/ pc = "Tick" /\ tick' = tick + 1 /\ idx' = 1
        \/ EndsPass /\ tick' = tick /\ idx' = idx + 1

\* a pass starts at the start of a tick or when the pass before it has ended
OneAtATime ==
    (pc' = "Pass" /\ pc # "Pass") =>
        \/ pc = "Tick" /\ idx' = 1
        \/ EndsPass /\ idx' = idx + 1

\* the wait is entered from the end of the last entry's pass, or at once
\* when no device is selected
WaitAfterLast ==
    (pc' = "Wait" /\ pc # "Wait") =>
        /\ idx' = Len(devices) + 1
        /\ \/ pc = "Tick" /\ devices = <<>>
           \/ EndsPass /\ idx = Len(devices)

\* C17: in every tick the entries of the resolved sequence have their
\* passes one after the other in the order of the sequence, each entry one
\* pass: a pass starts at the start of the tick (the first entry) or when
\* the pass of the entry before has ended by its snapshot or by a failed
\* call; the entries from the running pass on have no snapshot yet, no
\* entry has more than one, a snapshot logged is one of the device its
\* entry names; and the wait is entered only from the end of the last
\* entry's pass.
C17_DevicesInOrderOnePerTick ==
    /\ [][InSequence /\ OneAtATime /\ WaitAfterLast]_vars
    /\ [](InPass =>
             /\ idx \in 1..Len(devices)
             /\ \A p \in idx..Len(devices) : emitted[p] = 0)
    /\ [](pc \in {"Pass", "Read", "Emit", "Wait"} =>
             \A p \in 1..Len(devices) : emitted[p] <= 1)
    /\ [](sink # <<>> =>
             sink[1].UUID = "GPU-" \o ToString(devices[idx - 1]))

\* the list "12", "0": in the second tick device 12 has logged its snapshot
\* and then device 0 logs its own
C17_Witness ==
    /\ devices = <<12, 0>>
    /\ tick = 2
    /\ sink # <<>>
    /\ sink[1].UUID = "GPU-0"
    /\ emitted = <<1, 1>>
    /\ pc = "Wait"

\* read r of the running pass is the call that has just been made, and it
\* failed
JustFailed(r) == pc \in {"Read", "Emit"} /\ rd = r + 1 /\ res[r].st = "err"

\* the line that names the method of read q
LineOf(q) == Collector[q].call \o "() error: %v"

\* C18: when a dynamic read has just failed, the latest line of the log is
\* the line the collector logs for that read, and it is not the line that
\* names the method of another read: the line logged for a metric names no
\* other metric.
C18_FailureLogNamesMetric ==
    \A r \in DynamicReads :
        JustFailed(r) =>
            /\ lastLog = Collector[r].msg
            /\ \A q \in (1..Len(Collector)) \ {r} : lastLog # LineOf(q)

\* C19: the receive from ctx.Done() is made by the step that returns from
\* the wait point and by no other, after a tick in which every entry of
\* the resolved sequence has had its pass; and a run whose context was done
\* when monitorGPU was called, once configured, makes exactly one tick, a
\* pass over every entry, and returns from its wait point.
C19_OnePassThoughCancelledAtCall ==
    /\ observed =>
          /\ pc = "returned"
          /\ tick >= 1
          /\ idx = Len(devices) + 1
          /\ reads >= Len(devices)
          /\ \A p \in 1..Len(devices) : emitted[p] \in {0, 1}
          /\ Cardinality(Unlogged) <= faults
    /\ ctxAtCall =>
          /\ ctxDone
          /\ tick <= 1
          /\ Running => tick = 1 \/ pc = "Tick"
          /\ pc = "returned" =>
                \/ observed /\ tick = 1
                \/ ~observed /\ lastLog = "Error finding nvidia driver: %v"

\* the context done at the call: two devices have had their passes, both
\* snapshots are logged, and monitorGPU has returned from the first wait
C19_Witness ==
    /\ ctxAtCall
    /\ observed
    /\ pc = "returned"
    /\ tick = 1
    /\ Len(devices) = 2
    /\ emitted = <<1, 1>>

\* the driver-version lookup returned an error
DriverLookupFailed == lastLog = "Error finding nvidia driver: %v"

\* C20: when the driver-version lookup has failed, monitorGPU has returned
\* without a panic: no device was counted or selected, no call of the
\* initializer and no collector read made, no snapshot logged, and the
\* session has been shut down, once; and a return that is not the one from
\* the wait point is this one.
C20_DriverLookupFailureReturns ==
    /\ DriverLookupFailed =>
          /\ pc = "returned"
          /\ panicErr = ""
          /\ ~observed
          /\ numDevices = <<>>
          /\ devices = <<>>
          /\ initLog = <<>>
          /\ tick = 0
          /\ reads = 0
          /\ nsnap = 0
          /\ sink = <<>>
          /\ nvml = [state |-> "shutdown", shutdowns |-> 1, outside |-> 0]
          /\ deferred = <<>>
    /\ (pc = "returned" /\ ~observed) => DriverLookupFailed

\* the lookup failed with two devices listed: returned, session shut down
C20_Witness ==
    /\ DriverLookupFailed
    /\ pc = "returned"
    /\ Len(devicesStr) = 2
    /\ AllValid
    /\ nvml.shutdowns = 1

====
